---- MODULE Spec2Model ----
(***************************************************************************)
(* Model of src/app.py: the participant registry (Student), the staff      *)
(* table, the staff sessions, the bulk import loop of admin_students and   *)
(* the evaluation ledger written by staff_evaluate.                        *)
(*                                                                         *)
(* Text is modelled as a sequence of one-character strings, so that        *)
(* strip(), lower() and replace() are computed and not assumed.  Python's  *)
(* None is the value None below (for a cell) and NoCategory (for the       *)
(* nullable column Student.category).                                      *)
(***************************************************************************)
EXTENDS Bags, FiniteSets, Integers, Sequences, TLC

\* ------------------------------------------------------------------ text

\* Python None of a spreadsheet cell (no one-character string equals it).
None == <<"None">>

UpperChars == <<"A","B","C","D","E","F","G","H","I","J","K","L","M",
                "N","O","P","Q","R","S","T","U","V","W","X","Y","Z">>
LowerChars == <<"a","b","c","d","e","f","g","h","i","j","k","l","m",
                "n","o","p","q","r","s","t","u","v","w","x","y","z">>

\* str.lower() on one character.
LowerChar(c) ==
    IF \E i \in DOMAIN UpperChars : UpperChars[i] = c
    THEN LowerChars[CHOOSE i \in DOMAIN UpperChars : UpperChars[i] = c]
    ELSE c

\* str.lower()
Lower(s) == [i \in DOMAIN s |-> LowerChar(s[i])]

\* str.replace(a, b) for one-character a and b
Replace(s, a, b) == [i \in DOMAIN s |-> IF s[i] = a THEN b ELSE s[i]]

\* str.strip(): the text without its leading and trailing blanks
RECURSIVE LStrip(_)
LStrip(s) == IF s # <<>> /\ Head(s) = " " THEN LStrip(Tail(s)) ELSE s
RECURSIVE RStrip(_)
RStrip(s) ==
    IF s # <<>> /\ s[Len(s)] = " " THEN RStrip(SubSeq(s, 1, Len(s) - 1)) ELSE s
Strip(s) == RStrip(LStrip(s))

\* Python's  sub in s
Contains(s, sub) ==
    \E i \in 1..(Len(s) - Len(sub) + 1) : SubSeq(s, i, i + Len(sub) - 1) = sub

\* Python truth value of a cell: None and "" are false.
Truthy(cell) == cell # None /\ cell # <<>>

\* ------------------------------------------------------------ categories

NoCategory == "None"
Categories == {"robo_race", "robo_sumo", "working_model"}

\* The characters of the literals the code compares category text with.
Text(lit) ==
    CASE lit = "robo_race" -> <<"r","o","b","o","_","r","a","c","e">>
      [] lit = "robo_sumo" -> <<"r","o","b","o","_","s","u","m","o">>
      [] lit = "working_model" ->
             <<"w","o","r","k","i","n","g","_","m","o","d","e","l">>
      [] lit = "race" -> <<"r","a","c","e">>
      [] lit = "sumo" -> <<"s","u","m","o">>
      [] lit = "working" -> <<"w","o","r","k","i","n","g">>
      [] lit = "model" -> <<"m","o","d","e","l">>
      [] lit = "none" -> <<"n","o","n","e">>
      [] lit = "null" -> <<"n","u","l","l">>
      [] lit = "nan" -> <<"n","a","n">>
      [] lit = "" -> <<>>
      [] lit = "id" -> <<"i","d">>
      [] lit = "student id" -> <<"s","t","u","d","e","n","t"," ","i","d">>

\* category.replace('_', ' ').title() of a stored category: the label shown
\* in messages; on the missing category (None) the call raises.
Label(category) ==
    CASE category = "robo_race" -> "Robo Race"
      [] category = "robo_sumo" -> "Robo Sumo"
      [] category = "working_model" -> "Working Model"

\* ----------------------------------------------------- validate_excel_data

\* The identifiers that validate_excel_data refuses (line 148).
Sentinels == {Text("none"), Text("null"), Text("nan"), Text(""), Text("id"),
              Text("student id")}

\* A reading of the cell that knows the three names only.
CategoryOfCellExact(row) ==
    IF Len(row) > 4 /\ Truthy(row[5])
    THEN LET cat_str == Replace(Lower(Strip(row[5])), " ", "_")
         IN  IF \E c \in Categories : cat_str = Text(c)
             THEN CHOOSE c \in Categories : cat_str = Text(c)
             ELSE NoCategory
    ELSE NoCategory

\* Lines 154-164: the category of the fifth cell.
CategoryOfCell(row) ==
    IF Len(row) > 4 /\ Truthy(row[5])
    THEN LET cat_str == Replace(Lower(Strip(row[5])), " ", "_")
         IN  IF \E c \in Categories : cat_str = Text(c)
             THEN CHOOSE c \in Categories : cat_str = Text(c)
             ELSE IF Contains(cat_str, Text("race")) THEN "robo_race"
             ELSE IF Contains(cat_str, Text("sumo")) THEN "robo_sumo"
             ELSE IF Contains(cat_str, Text("working"))
                     \/ Contains(cat_str, Text("model")) THEN "working_model"
             ELSE NoCategory
    ELSE NoCategory

\* The result of validate_excel_data for a rejected row.
Invalid == [valid |-> FALSE]

\* validate_excel_data(row): Invalid, or the cleaned fields of the row.
validate_excel_data(row) ==
    IF Len(row) < 2 THEN Invalid
    ELSE LET student_id == IF Truthy(row[1]) THEN Strip(row[1]) ELSE None
             name == IF Truthy(row[2]) THEN Strip(row[2]) ELSE None
         IN  IF ~Truthy(student_id) \/ ~Truthy(name) THEN Invalid
             ELSE IF Lower(student_id) \in Sentinels THEN Invalid
             ELSE [valid |-> TRUE, student_id |-> student_id, name |-> name,
                   category |-> CategoryOfCell(row)]

\* ------------------------------------------------------------------ bounds

MaxStaffId == 2          \* primary keys the staff table hands out
MaxSessions == 1         \* staff session cookies alive at once
MaxEvaluations == 3      \* rows of the evaluation table
MaxRequests == 2         \* staff_evaluate requests in flight at once

BatchSize == 10          \* "Commit every 10 records"
PointsPerCriterion == 10 \* max_score = len(criteria) * 10

\* Cell texts of the sheets that are uploaded.
S1 == <<"S","1">>
S1Padded == <<" ","S","1"," ">>
S2 == <<"S","2">>
Ann == <<"A","n","n">>
RoboRaceCell == <<"R","o","b","o"," ","R","a","c","e">>
SumoCell == <<"S","U","M","O">>
IdCell == <<"I","D">>

Row(id, name, cat) == <<id, name, None, None, cat>>
RowRace == Row(S1, Ann, RoboRaceCell)
RowSumo == Row(S1Padded, Ann, SumoCell)
RowUnset == Row(S2, Ann, None)
RowEmpty == Row(None, None, None)
RowHeader == Row(IdCell, Ann, None)

\* The identifiers a staff member submits or probes.
StudentIds == {S1, S2}
Emails == {"a@x", "b@x"}

\* The staff members an administrator creates: two of one category and one
\* of another.
StaffForms == {<<"a@x", "robo_race">>, <<"b@x", "robo_race">>,
               <<"b@x", "robo_sumo">>}

\* The sheets uploaded next to staff and evaluation traffic.
Sheets == {<<RowRace>>, <<RowUnset>>, <<RowUnset, RowRace>>}

\* The sheets of the import specification: repeated identifiers, empty and
\* header rows, and a sheet long enough to reach the periodic commit.
LongId(i) == <<"L", LowerChars[i]>>
LongSheet == [i \in 1..(BatchSize + 1) |-> Row(LongId(i), Ann, None)]
ImportSheets ==
    {<<RowRace, RowSumo>>, <<RowRace, RowUnset, RowRace>>,
     <<RowEmpty, RowHeader, RowUnset>>, <<RowUnset>>, LongSheet}

\* The sheets and staff of the report specification: students of two
\* categories, S1 in either, and a staff member of each category.
RowRace2 == Row(S2, Ann, RoboRaceCell)
ReportSheets == {<<RowRace, RowRace2>>, <<RowSumo>>}
ReportStaff == {<<"a@x", "robo_race">>, <<"b@x", "robo_sumo">>}
Filters == {"all"} \cup Categories

\* Category cells of the category specification: the three names in several
\* spellings, texts that hold one or two of the words the code looks for,
\* and texts that hold none.
HyphenCell == <<"r","o","b","o","-","r","a","c","e">>
WorkingModelCell == <<"W","o","r","k","i","n","g"," ","M","o","d","e","l">>
PaddedSumoCell == <<" ","r","o","b","o","_","s","u","m","o"," ">>
ModelCell == <<"M","o","d","e","l"," ","X">>
WorkingCell == <<"W","O","R","K","I","N","G">>
SumoRaceCell == <<"s","u","m","o"," ","r","a","c","e">>
ModelSumoCell == <<"m","o","d","e","l"," ","s","u","m","o">>
ChessCell == <<"C","h","e","s","s">>
BlankCell == <<" "," ">>
EmptyCell == <<>>
CategoryCells == {RoboRaceCell, HyphenCell, SumoCell, WorkingModelCell,
                  PaddedSumoCell, ModelCell, WorkingCell, SumoRaceCell,
                  ModelSumoCell, ChessCell, BlankCell, EmptyCell, None}

\* One-row sheets, with every category cell and with no category column.
CategorySheets ==
    {<<Row(id, Ann, cell)>> : id \in StudentIds, cell \in CategoryCells}
        \cup {<<(<<id, Ann>>)>> : id \in StudentIds}

\* criteria_data of a submission: text json.loads rejects, or the mapping it
\* yields; a value is a number or text float() rejects.
Num(n) == [num |-> TRUE, val |-> n]
NotNum == [num |-> FALSE, val |-> 0]
Malformed == [json |-> FALSE, items |-> <<>>]
Mapping(items) == [json |-> TRUE, items |-> items]
DesignExecution ==
    Mapping([k \in {"design", "execution"} |->
                IF k = "design" THEN Num(8) ELSE Num(7)])
CriteriaData ==
    {Malformed,
     Mapping(<<>>),
     DesignExecution,
     Mapping([k \in {"design"} |-> Num(12)]),
     Mapping([k \in {"design"} |-> NotNum])}

\* ------------------------------------------------------------------- state

VARIABLES
    students,     \* table student: a bag of rows
    staff,        \* table staff: a set of rows (id is the primary key)
    evaluations,  \* table evaluation, in stored order
    sessions,     \* the staff session cookies: user_id and cached category
    imp,          \* admin_students: the locals of the import in progress
    pending,      \* import_session: rows added and not yet committed
    requests,     \* staff_evaluate requests between their check and insert
    response,     \* the last request answered, and the answer
    hist          \* history of the import, read by the properties only:
                  \* the row exceptions raised, the identifiers counted as
                  \* added, and the clean import of the same file before it

vars == <<students, staff, evaluations, sessions, imp, pending, requests,
          response, hist>>

NoPrev == [same |-> FALSE]

\* No request was answered yet, or a request is being handled.
NoResponse == [op |-> "none"]

\* No import is running: the handler's locals do not exist.
NoImport == [pc |-> "idle", sheet |-> <<>>, idx |-> 2, added |-> 0,
             skipped |-> 0, duplicates |-> 0]
NoHist == [raised |-> 0, counted |-> {}, again |-> NoPrev]

Init ==
    /\ students = EmptyBag
    /\ staff = {}
    /\ evaluations = <<>>
    /\ sessions = {}
    /\ imp = NoImport
    /\ pending = EmptyBag
    /\ requests = EmptyBag
    /\ response = NoResponse
    /\ hist = NoHist

\* The serial specification runs one request at a time: a handler starts
\* only when no import is between two rows and no submission is in flight.
Quiet == imp.pc = "idle" /\ requests = EmptyBag

\* ------------------------------------------------------------ staff, login

\* The primary key of a new staff row: both engines (SQLite rowid,
\* PostgreSQL sequence) hand out an id above every id in the table.
NewStaffIds == {i \in 1..MaxStaffId : \A st \in staff : st.id < i}

\* admin_staff, POST: create a staff member unless the email is taken.
admin_staff(email, category) ==
    /\ Quiet
    /\ IF \E st \in staff : st.email = email
       THEN /\ response' = [op |-> "admin_staff", outcome |-> "EmailExists"]
            /\ UNCHANGED staff
       ELSE \E id \in NewStaffIds :
            /\ staff' = staff \cup
                   {[id |-> id, email |-> email, category |-> category]}
            /\ response' = [op |-> "admin_staff", outcome |-> "Created"]
    /\ UNCHANGED <<students, evaluations, sessions, imp, pending, requests,
                   hist>>

\* delete_staff(id): get_or_404 raises on a missing id, which the handler
\* catches; the sessions of the deleted member are not touched.
delete_staff(id) ==
    /\ Quiet
    /\ IF \E st \in staff : st.id = id
       THEN /\ staff' = {st \in staff : st.id # id}
            /\ response' = [op |-> "delete_staff", outcome |-> "Deleted"]
       ELSE /\ response' = [op |-> "delete_staff", outcome |-> "Error"]
            /\ UNCHANGED staff
    /\ UNCHANGED <<students, evaluations, sessions, imp, pending, requests,
                   hist>>

\* login, POST, with the password of the staff member of that email: the
\* session caches the member's id and category.  At most `browsers` staff
\* sessions are alive at once.
login(email, browsers) ==
    /\ Quiet
    /\ IF \E st \in staff : st.email = email
       THEN \E st \in staff :
            /\ st.email = email
            /\ LET cookie == [user_id |-> st.id, category |-> st.category]
               IN  /\ Cardinality(sessions \cup {cookie}) <= browsers
                   /\ sessions' = sessions \cup {cookie}
            /\ response' = [op |-> "login", outcome |-> "Success"]
       ELSE /\ response' = [op |-> "login", outcome |-> "Invalid"]
            /\ UNCHANGED sessions
    /\ UNCHANGED <<students, staff, evaluations, imp, pending, requests,
                   hist>>

\* logout: session.clear()
logout(s) ==
    /\ Quiet
    /\ s \in sessions
    /\ sessions' = sessions \ {s}
    /\ response' = [op |-> "logout", outcome |-> "Success"]
    /\ UNCHANGED <<students, staff, evaluations, imp, pending, requests,
                   hist>>

\* ---------------------------------------------------------- delete_student

\* A deletion that takes the evaluations of the student with it.
delete_student_cascade(student) ==
    /\ Quiet
    /\ BagIn(student, students)
    /\ students' = students (-) SetToBag({student})
    /\ evaluations' = SelectSeq(evaluations,
                           LAMBDA e : e.student_id # student.student_id)
    /\ response' = [op |-> "delete_student", outcome |-> "Deleted"]
    /\ UNCHANGED <<staff, sessions, imp, pending, requests, hist>>

\* delete_student(id): the row of that primary key is removed; a missing id
\* raises in get_or_404 and is caught.
delete_student(student) ==
    /\ Quiet
    /\ IF BagIn(student, students)
       THEN /\ students' = students (-) SetToBag({student})
            /\ response' = [op |-> "delete_student", outcome |-> "Deleted"]
       ELSE /\ response' = [op |-> "delete_student", outcome |-> "Error"]
            /\ UNCHANGED students
    /\ UNCHANGED <<staff, evaluations, sessions, imp, pending, requests,
                   hist>>

\* ---------------------------------------------------------- staff_evaluate

\* Student.query.filter_by(student_id=...): the rows first() chooses from.
StudentsWithId(student_id) ==
    {st \in BagToSet(students) : st.student_id = student_id}

\* Evaluation.query.filter_by(student_id=..., category=...).first()
ExistingEvaluationNone(student_id, category) == FALSE
ExistingEvaluation(student_id, category) ==
    \E i \in DOMAIN evaluations :
        /\ evaluations[i].student_id = student_id
        /\ evaluations[i].category = category

\* json.loads and float() accept the submitted criteria (lines 585-586).
Parses(criteria_data) ==
    /\ criteria_data.json
    /\ \A k \in DOMAIN criteria_data.items : criteria_data.items[k].num

\* sum(float(criteria[key]) for key in criteria)
RECURSIVE SumOver(_, _)
SumOver(criteria, keys) ==
    IF keys = {} THEN 0
    ELSE LET k == CHOOSE x \in keys : TRUE
         IN  criteria[k].val + SumOver(criteria, keys \ {k})
total_score_first(criteria) ==
    IF DOMAIN criteria = {} THEN 0
    ELSE criteria[CHOOSE x \in DOMAIN criteria : TRUE].val
total_score(criteria) == SumOver(criteria, DOMAIN criteria)

\* len(criteria) * 10
max_score(criteria) == Cardinality(DOMAIN criteria) * PointsPerCriterion

\* Lines 607-615: the row a submission writes.
NewEvaluation(staff_id, category, student_id, criteria_data) ==
    [student_id |-> student_id, staff_id |-> staff_id, category |-> category,
     score |-> total_score(criteria_data.items),
     max_score |-> max_score(criteria_data.items),
     criteria_scores |-> criteria_data]

\* The answer to a submission: the outcome flashed and, for the generic
\* failure, the exception its message shows; with the request it answers.
Flash(s, student_id, outcome, error) ==
    [op |-> "staff_evaluate", outcome |-> outcome, error |-> error,
     user_id |-> s.user_id, category |-> s.category,
     student_id |-> student_id]

\* The exception a submission ends with, "" when it raises none:
\* json.loads or float() on the criteria, a query or the commit on a
\* storage failure, Label on a student without category.
Raised(criteria_data, db_up, decision) ==
    IF ~Parses(criteria_data) THEN "ValueError"
    ELSE IF ~db_up THEN "OperationalError"
    ELSE IF decision = "Error" THEN "AttributeError"
    ELSE ""

\* Lines 589-605: what the checks of a submission decide, for the student
\* row first() returned (NoStudent when there is none): "Insert" or the
\* outcome it is rejected with.  Label raises on a student without category.
NoStudent == [student_id |-> None, name |-> None, category |-> NoCategory]
DecisionNoCategoryCheck(student, category, student_id) ==
    IF student = NoStudent THEN "NotFound"
    ELSE IF ExistingEvaluation(student_id, category) THEN "AlreadyEvaluated"
    ELSE "Insert"
Decision(student, category, student_id) ==
    IF student = NoStudent THEN "NotFound"
    ELSE IF student.category # category
         THEN IF student.category = NoCategory THEN "Error"
              ELSE "CategoryMismatch"
    ELSE IF ExistingEvaluation(student_id, category) THEN "AlreadyEvaluated"
    ELSE "Insert"

\* The student row(s) first() may return for a submitted identifier.
FirstStudent(student_id) ==
    IF StudentsWithId(student_id) = {} THEN {NoStudent}
    ELSE StudentsWithId(student_id)

\* staff_evaluate, POST, as one request.  db_up is FALSE when a query or the
\* commit raises: the handler rolls back and reports a generic error.
staff_evaluate(s, student_id, criteria_data, db_up) ==
    /\ Quiet
    /\ s \in sessions
    /\ \E student \in FirstStudent(student_id) :
       LET decision ==
               IF ~Parses(criteria_data) \/ ~db_up THEN "Error"
               ELSE Decision(student, s.category, student_id)
           error == Raised(criteria_data, db_up, decision)
       IN  IF decision = "Insert"
           THEN /\ Len(evaluations) < MaxEvaluations
                /\ evaluations' = Append(evaluations,
                       NewEvaluation(s.user_id, s.category, student_id,
                                     criteria_data))
                /\ response' = Flash(s, student_id, "Success", error)
           ELSE /\ response' = Flash(s, student_id, decision, error)
                /\ UNCHANGED evaluations
    /\ UNCHANGED <<students, staff, sessions, imp, pending, requests, hist>>

\* staff_evaluate under concurrent requests: lines 577-605 of one request,
\* up to the decision to insert; other requests may run before its insert.
staff_evaluate_check(s, student_id, criteria_data, db_up) ==
    /\ imp.pc = "idle"
    /\ s \in sessions
    /\ \E student \in FirstStudent(student_id) :
       LET decision ==
               IF ~Parses(criteria_data) \/ ~db_up THEN "Error"
               ELSE Decision(student, s.category, student_id)
           error == Raised(criteria_data, db_up, decision)
       IN  IF decision = "Insert"
           THEN /\ BagCardinality(requests) < MaxRequests
                /\ requests' = requests (+) SetToBag(
                       {NewEvaluation(s.user_id, s.category, student_id,
                                      criteria_data)})
                /\ UNCHANGED response
           ELSE /\ response' = Flash(s, student_id, decision, error)
                /\ UNCHANGED requests
    /\ UNCHANGED <<students, staff, evaluations, sessions, imp, pending,
                   hist>>

\* Lines 607-621 of a request that decided to insert: the table evaluation
\* has no unique constraint, so the commit succeeds whenever storage is up.
staff_evaluate_commit(evaluation, db_up) ==
    /\ BagIn(evaluation, requests)
    /\ requests' = requests (-) SetToBag({evaluation})
    /\ LET s == [user_id |-> evaluation.staff_id,
                 category |-> evaluation.category]
       IN  IF db_up
           THEN /\ Len(evaluations) < MaxEvaluations
                /\ evaluations' = Append(evaluations, evaluation)
                /\ response' = Flash(s, evaluation.student_id, "Success", "")
           ELSE /\ response' = Flash(s, evaluation.student_id, "Error",
                                     "OperationalError")
                /\ UNCHANGED evaluations
    /\ UNCHANGED <<students, staff, sessions, imp, pending, hist>>

\* ------------------------------------------------------------- get_student

NoSession == [user_id |-> 0, category |-> NoCategory]

\* get_student(student_id): the JSON the probe answers.  A caller who is not
\* a logged-in staff member gets exists = false; so does any exception, with
\* the error text.
Probe(caller, student, student_id, db_up) ==
    IF caller = NoSession THEN [exists |-> FALSE]
    ELSE IF ~db_up THEN [error |-> "OperationalError", exists |-> FALSE]
    ELSE IF student = NoStudent THEN [exists |-> FALSE]
    ELSE IF student.category # caller.category
         THEN IF student.category = NoCategory
              THEN [error |-> "AttributeError", exists |-> FALSE]
              ELSE [exists |-> TRUE, wrong_category |-> TRUE,
                    student_category |-> Label(student.category),
                    staff_category |-> Label(caller.category)]
    ELSE [exists |-> TRUE, wrong_category |-> FALSE, name |-> student.name,
          category |-> student.category,
          already_evaluated |->
              ExistingEvaluation(student_id, caller.category)]

get_student(caller, student_id, db_up) ==
    /\ Quiet
    /\ caller \in sessions \cup {NoSession}
    /\ \E student \in FirstStudent(student_id) :
           response' = [op |-> "get_student", caller |-> caller,
                        student_id |-> student_id,
                        json |-> Probe(caller, student, student_id, db_up)]
    /\ UNCHANGED <<students, staff, evaluations, sessions, imp, pending,
                   requests, hist>>

\* ------------------------------------------- admin_reports, export_reports

\* Evaluation.query.all() for 'all', else
\* Evaluation.query.filter_by(category=category).all(): the rows of the
\* table that the storage returns, in the order it stores them.
EvaluationsUnfiltered(category) == evaluations
RECURSIVE Filtered(_, _)
Filtered(rows, category) ==
    IF rows = <<>> THEN <<>>
    ELSE IF Head(rows).category = category
         THEN <<Head(rows)>> \o Filtered(Tail(rows), category)
         ELSE Filtered(Tail(rows), category)
EvaluationsOf(category) ==
    IF category = "all" THEN evaluations ELSE Filtered(evaluations, category)

\* Lines 521-522: the header row of the exported sheet.
Headers == <<"Student ID", "Staff ID", "Category", "Score", "Max Score">>

\* Lines 525-533: the sheet row of one evaluation (the comments and the
\* timestamp columns are not part of the model's evaluation rows).
ExportRow(eval) ==
    <<eval.student_id, eval.staff_id, Label(eval.category), eval.score,
      eval.max_score>>

\* Lines 524-533: ws.append for every evaluation, after the header.
RECURSIVE AppendRows(_, _)
AppendRows(ws, evals) ==
    IF evals = <<>> THEN ws
    ELSE AppendRows(Append(ws, ExportRow(Head(evals))), Tail(evals))

\* export_reports, GET with ?category=...: the sheet sent to the admin, or
\* the error flashed when the query raises.
export_reports(category, db_up) ==
    /\ Quiet
    /\ response' =
           IF db_up
           THEN [op |-> "export", category |-> category, outcome |-> "Sheet",
                 sheet |-> AppendRows(<<Headers>>, EvaluationsOf(category))]
           ELSE [op |-> "export", category |-> category, outcome |-> "Error",
                 sheet |-> <<>>]
    /\ UNCHANGED <<students, staff, evaluations, sessions, imp, pending,
                   requests, hist>>

\* max(scores), min(scores), sum(scores) of a non-empty list
RECURSIVE MaxOf(_)
MaxOf(scores) ==
    IF Len(scores) = 1 THEN scores[1]
    ELSE LET m == MaxOf(Tail(scores))
         IN  IF scores[1] > m THEN scores[1] ELSE m
RECURSIVE MinOf(_)
MinOf(scores) ==
    IF Len(scores) = 1 THEN scores[1]
    ELSE LET m == MinOf(Tail(scores))
         IN  IF scores[1] < m THEN scores[1] ELSE m
RECURSIVE SumOf(_)
SumOf(scores) ==
    IF scores = <<>> THEN 0 ELSE Head(scores) + SumOf(Tail(scores))

\* Lines 477-495: the statistics of one category; avg is the quotient
\* sum / count, kept as that pair of numbers.
StatsOf(cat) ==
    LET cat_evals == Filtered(evaluations, cat)
        scores == [i \in DOMAIN cat_evals |-> cat_evals[i].score]
    IN  IF cat_evals # <<>>
        THEN [count |-> Len(cat_evals),
              avg |-> <<SumOf(scores), Len(scores)>>,
              max |-> MaxOf(scores), min |-> MinOf(scores)]
        ELSE [count |-> 0, avg |-> <<0, 1>>, max |-> 0, min |-> 0]

\* admin_reports, GET with ?category=...: the evaluations listed and the
\* statistics per category; both are empty when a query raises.
admin_reports(category, db_up) ==
    /\ Quiet
    /\ response' =
           IF db_up
           THEN [op |-> "admin_reports", category |-> category,
                 outcome |-> "Page", evaluations |-> EvaluationsOf(category),
                 stats |-> [cat \in Categories |-> StatsOf(cat)]]
           ELSE [op |-> "admin_reports", category |-> category,
                 outcome |-> "Error", evaluations |-> <<>>, stats |-> <<>>]
    /\ UNCHANGED <<students, staff, evaluations, sessions, imp, pending,
                   requests, hist>>

\* ---------------------------------------------------------- admin_students

\* What a query of import_session sees: the committed rows and its own.
SessionRows == students (+) pending

\* import_session.query(Student).filter_by(student_id=...).first()
existing(student_id) ==
    \E st \in BagToSet(SessionRows) : st.student_id = student_id

\* The rows of a table that hold an identifier.
IdCount(table, student_id) ==
    BagCardinality([st \in {x \in BagToSet(table) : x.student_id = student_id}
                       |-> CopiesIn(st, table)])

\* Student.student_id is unique=True: the storage refuses a flush or commit
\* that would leave two rows with one identifier.
UniqueViolated(table) ==
    \E st \in BagToSet(table) : IdCount(table, st.student_id) > 1

\* any(row)
AnyCell(row) == \E i \in DOMAIN row : Truthy(row[i])

\* Lines 370-378: an empty or invalid row.
RowSkipped(l) == [l EXCEPT !.skipped = @ + 1]

\* Lines 382-384: a row whose identifier exists.
RowDuplicateAsSkipped(l) == [l EXCEPT !.skipped = @ + 1]
RowDuplicate(l) == [l EXCEPT !.duplicates = @ + 1]

\* Lines 419-423: the except branch of a row (after import_session.rollback()):
\* the row is counted as skipped and the loop continues.
RowFailedAborts(l) == [l EXCEPT !.pc = "idle"]
RowFailed(l) == [l EXCEPT !.skipped = @ + 1]

\* The places of a row's processing where the storage or the QR library may
\* raise: the query (381), the QR code (387-399), the periodic commit (416).
FailPoints == {"none", "query", "qr", "commit"}

\* POST with a file that is not named .xlsx or .xls (line 438), or that
\* load_workbook cannot read (lines 432-436): nothing is imported.
admin_students_refused(outcome) ==
    /\ Quiet
    /\ response' = [op |-> "import", outcome |-> outcome, file |-> <<>>]
    /\ UNCHANGED <<students, staff, evaluations, sessions, imp, pending,
                   requests, hist>>

\* POST with an Excel file: lines 355-364, up to the first row.
ImportBegin(sheet) ==
    /\ Quiet
    /\ imp' = [pc |-> "rows", sheet |-> sheet, idx |-> 2, added |-> 0,
               skipped |-> 0, duplicates |-> 0]
    /\ pending' = EmptyBag
    /\ hist' = [raised |-> 0, counted |-> {},
                again |->
                    IF /\ response.op = "import"
                       /\ response.outcome = "Success"
                       /\ response.clean
                       /\ response.file = sheet
                    THEN [same |-> TRUE, added |-> response.added,
                          duplicates |-> response.duplicates,
                          students |-> students]
                    ELSE NoPrev]
    /\ response' = NoResponse
    /\ UNCHANGED <<students, staff, evaluations, sessions, requests>>

\* One iteration of the loop of lines 367-423, on row idx of the sheet.
ImportRow(failAt) ==
    /\ imp.pc = "rows"
    /\ imp.idx - 1 <= Len(imp.sheet)
    /\ LET row == imp.sheet[imp.idx - 1]
           data == validate_excel_data(row)
           l == [imp EXCEPT !.idx = @ + 1]
           raised == /\ imp' = RowFailed(l)
                     /\ pending' = EmptyBag
                     /\ hist' = [hist EXCEPT !.raised = @ + 1]
                     /\ UNCHANGED students
       IN  IF ~AnyCell(row) \/ ~data.valid
           THEN /\ imp' = RowSkipped(l)
                /\ UNCHANGED <<students, pending, hist>>
           ELSE IF failAt = "query" \/ UniqueViolated(SessionRows)
           THEN raised
           ELSE IF existing(data.student_id)
           THEN /\ imp' = RowDuplicate(l)
                /\ UNCHANGED <<students, pending, hist>>
           ELSE IF failAt = "qr"
           THEN raised
           ELSE LET student == [student_id |-> data.student_id,
                                name |-> data.name,
                                category |-> data.category]
                    added == l.added + 1
                    counted == hist.counted \cup {data.student_id}
                    batch == pending (+) SetToBag({student})
                IN  IF added % BatchSize # 0
                    THEN /\ imp' = [l EXCEPT !.added = added]
                         /\ pending' = batch
                         /\ hist' = [hist EXCEPT !.counted = counted]
                         /\ UNCHANGED students
                    ELSE IF failAt = "commit"
                            \/ UniqueViolated(students (+) batch)
                    THEN /\ imp' = RowFailed([l EXCEPT !.added = added])
                         /\ pending' = EmptyBag
                         /\ hist' = [hist EXCEPT !.counted = counted,
                                                 !.raised = @ + 1]
                         /\ UNCHANGED students
                    ELSE /\ imp' = [l EXCEPT !.added = added]
                         /\ students' = students (+) batch
                         /\ pending' = EmptyBag
                         /\ hist' = [hist EXCEPT !.counted = counted]
    /\ UNCHANGED <<staff, evaluations, sessions, requests, response>>

\* Lines 425-436: the final commit and the report; when the commit raises,
\* the outer handler reports the error and close() drops what was pending.
ImportFinish(db_up) ==
    /\ imp.pc = "rows"
    /\ imp.idx - 1 > Len(imp.sheet)
    /\ IF db_up /\ ~UniqueViolated(SessionRows)
       THEN /\ students' = SessionRows
            /\ response' = [op |-> "import", outcome |-> "Success",
                            added |-> imp.added, skipped |-> imp.skipped,
                            duplicates |-> imp.duplicates,
                            file |-> imp.sheet, clean |-> hist.raised = 0,
                            again |-> hist.again]
       ELSE /\ response' = [op |-> "import", outcome |-> "Error",
                            file |-> imp.sheet]
            /\ UNCHANGED students
    /\ pending' = EmptyBag
    /\ imp' = NoImport
    /\ hist' = NoHist
    /\ UNCHANGED <<staff, evaluations, sessions, requests>>

\* ----------------------------------------------------------- specification

Next ==
    \/ \E f \in StaffForms : admin_staff(f[1], f[2])
    \/ \E id \in 1..MaxStaffId : delete_staff(id)
    \/ \E e \in Emails : login(e, MaxSessions)
    \/ \E s \in sessions : logout(s)
    \/ \E o \in {"NotExcel", "Error"} : admin_students_refused(o)
    \/ \E sh \in Sheets : ImportBegin(sh)
    \/ ImportRow("none")
    \/ \E up \in BOOLEAN : ImportFinish(up)
    \/ \E st \in BagToSet(students) : delete_student(st)
    \/ \E s \in sessions, id \in StudentIds,
          c \in {Malformed, DesignExecution}, up \in BOOLEAN :
           staff_evaluate(s, id, c, up)
    \/ \E s \in sessions \cup {NoSession}, id \in StudentIds,
          up \in BOOLEAN : get_student(s, id, up)
    \/ \E c \in {"all", "robo_sumo"} : admin_reports(c, TRUE)
    \/ \E c \in {"all", "robo_sumo"} : export_reports(c, TRUE)

Spec == Init /\ [][Next]_vars

\* The import on its own, with every sheet and every failure of a row.
NextImport ==
    \/ \E o \in {"NotExcel", "Error"} : admin_students_refused(o)
    \/ \E sh \in ImportSheets : ImportBegin(sh)
    \/ \E f \in FailPoints : ImportRow(f)
    \/ \E up \in BOOLEAN : ImportFinish(up)
    \/ \E st \in BagToSet(students) :
           st.student_id \in StudentIds /\ delete_student(st)

SpecImport == Init /\ [][NextImport]_vars

\* Submissions that overlap: the check of one request may run between the
\* check and the insert of another.
NextConc ==
    \/ \E e \in Emails : admin_staff(e, "robo_race")
    \/ \E e \in Emails : login(e, MaxRequests)
    \/ \E s \in sessions : logout(s)
    \/ ImportBegin(<<RowRace, RowUnset>>)
    \/ ImportRow("none")
    \/ ImportFinish(TRUE)
    \/ \E s \in sessions, id \in StudentIds,
          c \in {Malformed, DesignExecution}, up \in BOOLEAN :
           staff_evaluate_check(s, id, c, up)
    \/ \E ev \in BagToSet(requests), up \in BOOLEAN :
           staff_evaluate_commit(ev, up)

SpecConc == Init /\ [][NextConc]_vars

\* Submissions with every kind of criteria, by one category of staff.
NextScore ==
    \/ \E e \in Emails : admin_staff(e, "robo_race")
    \/ \E id \in 1..MaxStaffId : delete_staff(id)
    \/ \E e \in Emails : login(e, MaxSessions)
    \/ \E s \in sessions : logout(s)
    \/ ImportBegin(<<RowRace>>)
    \/ ImportRow("none")
    \/ ImportFinish(TRUE)
    \/ \E st \in BagToSet(students) : delete_student(st)
    \/ \E s \in sessions, id \in StudentIds, c \in CriteriaData,
          up \in BOOLEAN : staff_evaluate(s, id, c, up)

SpecScore == Init /\ [][NextScore]_vars

\* Reports and exports over a ledger with rows of several categories.
NextReport ==
    \/ \E f \in ReportStaff : admin_staff(f[1], f[2])
    \/ \E e \in Emails : login(e, MaxSessions)
    \/ \E s \in sessions : logout(s)
    \/ \E sh \in ReportSheets : ImportBegin(sh)
    \/ ImportRow("none")
    \/ ImportFinish(TRUE)
    \/ \E st \in BagToSet(students) : delete_student(st)
    \/ \E s \in sessions, id \in StudentIds :
           staff_evaluate(s, id, DesignExecution, TRUE)
    \/ \E c \in Filters : admin_reports(c, TRUE)
    \/ \E c \in Filters, up \in BOOLEAN : export_reports(c, up)

SpecReport == Init /\ [][NextReport]_vars

\* Imports of one-row sheets with every category cell.
NextCategory ==
    \/ \E sh \in CategorySheets : ImportBegin(sh)
    \/ ImportRow("none")
    \/ ImportFinish(TRUE)
    \/ \E st \in BagToSet(students) : delete_student(st)

SpecCategory == Init /\ [][NextCategory]_vars

\* ------------------------------------------------------------------ claims

\* The rows of the evaluation table for one (student_id, category) pair.
RowsOfPair(student_id, category) ==
    {i \in DOMAIN evaluations :
        /\ evaluations[i].student_id = student_id
        /\ evaluations[i].category = category}

\* C1: under serial execution of imports, deletions, staff creation and
\* deletion and submissions by any staff member, no two rows of the
\* evaluation table have the same (student_id, category).
C1_OneEvaluationPerPair ==
    \A i, j \in DOMAIN evaluations :
        (/\ evaluations[i].student_id = evaluations[j].student_id
         /\ evaluations[i].category = evaluations[j].category) => i = j

\* A submission was rejected as already evaluated, and the staff member
\* logged in is not the one who wrote the existing row.
C1_Witness ==
    /\ response.op = "staff_evaluate"
    /\ response.outcome = "AlreadyEvaluated"
    /\ \E i \in RowsOfPair(response.student_id, response.category) :
           evaluations[i].staff_id # response.user_id

\* C2: also when the requests of two staff members of one category overlap
\* (check of one between check and insert of the other), at most one row is
\* committed for a (student_id, category) pair.
C2_OneEvaluationPerPairConcurrent ==
    \A e \in {evaluations[i] : i \in DOMAIN evaluations} :
        \A i, j \in RowsOfPair(e.student_id, e.category) :
            evaluations[i].staff_id = evaluations[j].staff_id

\* The identifiers held by the rows of a table.
IdsOf(table) == {st.student_id : st \in BagToSet(table)}

\* C3: after any sequence of imports no two student rows share a student_id,
\* and a valid row whose identifier is in the registry, or was counted as
\* added earlier in the same import, creates no row and is counted as a
\* duplicate (for a row whose own processing raises nothing).
C3_UniqueAndCountedDuplicate ==
    /\ [](\A id \in IdsOf(students) : IdCount(students, id) = 1)
    /\ [][(/\ ImportRow("none")
           /\ AnyCell(imp.sheet[imp.idx - 1])
           /\ validate_excel_data(imp.sheet[imp.idx - 1]).valid
           /\ validate_excel_data(imp.sheet[imp.idx - 1]).student_id
                  \in IdsOf(students) \cup hist.counted)
          => (/\ imp'.duplicates = imp.duplicates + 1
              /\ imp'.added = imp.added
              /\ students' = students
              /\ pending' = pending)]_vars

\* C4: a clean import of the file that the clean import just before it
\* read adds nothing: added = 0, the rows added or duplicate the first time
\* are all duplicates, and the registry is as the first import left it.
C4_SecondImportAddsNothing ==
    (/\ response.op = "import"
     /\ response.outcome = "Success"
     /\ response.clean
     /\ response.again.same)
    => (/\ response.added = 0
        /\ response.duplicates =
               response.again.added + response.again.duplicates
        /\ students = response.again.students)

\* The second of two clean imports of one file has reported, and the first
\* had added rows.
C4_Witness ==
    /\ response.op = "import"
    /\ response.outcome = "Success"
    /\ response.clean
    /\ response.again.same
    /\ response.again.added > 0
    /\ response.duplicates > 0

\* C5: the row a submission writes has the category of the staff row of its
\* staff_id and of the student row of its student_id, as the tables stand
\* when it is written.
C5_CategoryOfStaffAndStudent ==
    [][Len(evaluations') = Len(evaluations) + 1 =>
        LET e == evaluations'[Len(evaluations')]
        IN  /\ \E st \in staff :
                   st.id = e.staff_id /\ st.category = e.category
            /\ \E st \in BagToSet(students) :
                   st.student_id = e.student_id /\ st.category = e.category
      ]_vars

\* A submission ended with an exception that has nothing to do with the
\* participant: malformed criteria or a storage failure.
Unanswerable(r) == r.error \in {"ValueError", "OperationalError"}

\* C6: a submission (criteria well formed, storage up) for an existing
\* student whose category, unset included, is not the staff member's is
\* answered CategoryMismatch and writes no row.
C6_MismatchRejected ==
    [][(/\ response'.op = "staff_evaluate"
        /\ ~Unanswerable(response')
        /\ \E st \in BagToSet(students) :
               /\ st.student_id = response'.student_id
               /\ st.category # response'.category)
       => (/\ response'.outcome = "CategoryMismatch"
           /\ evaluations' = evaluations)
      ]_vars

\* The student of a submission is in the registry with the category of the
\* staff member, and the pair has no evaluation yet.
MayEvaluate(category, student_id) ==
    /\ \E st \in BagToSet(students) :
           st.student_id = student_id /\ st.category = category
    /\ RowsOfPair(student_id, category) = {}

\* C7: a submission leaves the student and staff tables alone; it appends
\* exactly one evaluation row, for its own staff member, student_id and
\* category, when the student exists with the staff member's category and
\* the pair has no row (criteria well formed, storage up), and otherwise
\* leaves the evaluation table as it was.
C7_OneRowOrNone ==
    [][response'.op = "staff_evaluate" =>
        LET r == response'
            accepted == MayEvaluate(r.category, r.student_id)
                        /\ ~Unanswerable(r)
        IN  /\ students' = students
            /\ staff' = staff
            /\ IF accepted
               THEN /\ r.outcome = "Success"
                    /\ Len(evaluations') = Len(evaluations) + 1
                    /\ SubSeq(evaluations', 1, Len(evaluations)) = evaluations
                    /\ LET e == evaluations'[Len(evaluations')]
                       IN  /\ e.staff_id = r.user_id
                           /\ e.category = r.category
                           /\ e.student_id = r.student_id
               ELSE /\ r.outcome # "Success"
                    /\ evaluations' = evaluations
      ]_vars

\* A submission was accepted and wrote its row.
C7_Witness ==
    /\ response.op = "staff_evaluate"
    /\ response.outcome = "Success"
    /\ evaluations # <<>>
    /\ evaluations[Len(evaluations)].student_id = response.student_id

\* The sum of the values of a criteria mapping, key by key.
RECURSIVE SumOfValues(_)
SumOfValues(items) ==
    IF DOMAIN items = {} THEN 0
    ELSE LET k == CHOOSE x \in DOMAIN items : TRUE
         IN  items[k].val
             + SumOfValues([x \in DOMAIN items \ {k} |-> items[x]])

\* C8: every evaluation row holds score = the sum of the submitted values
\* and max_score = 10 x the number of submitted criteria; the mapping
\* {design: 8, execution: 7} gives 15 and 20, the empty mapping 0 and 0.
C8_ScoreAndMaxScore ==
    \A i \in DOMAIN evaluations :
        LET e == evaluations[i]
            items == e.criteria_scores.items
        IN  /\ e.score = SumOfValues(items)
            /\ e.max_score = 10 * Cardinality(DOMAIN items)
            /\ e.criteria_scores = DesignExecution =>
                   e.score = 15 /\ e.max_score = 20
            /\ items = <<>> => e.score = 0 /\ e.max_score = 0

\* A row was written from a mapping with a value above 10.
C8_Witness ==
    \E i \in DOMAIN evaluations :
        /\ \E k \in DOMAIN evaluations[i].criteria_scores.items :
               evaluations[i].criteria_scores.items[k].val > 10
        /\ evaluations[i].score = 12
        /\ evaluations[i].max_score = 10

\* C9: a row whose processing raises does not end the import: it is counted
\* as skipped and the loop goes on with the next row; the import ends only
\* after the last row, and its report counts the rows that raised.
C9_RowFailureContinues ==
    [][/\ hist'.raised = hist.raised + 1 =>
            /\ imp'.pc = "rows"
            /\ imp'.sheet = imp.sheet
            /\ imp'.idx = imp.idx + 1
            /\ imp'.skipped = imp.skipped + 1
            /\ response' = response
       /\ (imp.pc = "rows" /\ imp'.pc = "idle") =>
            /\ imp.idx - 1 = Len(imp.sheet) + 1
            /\ response'.op = "import"
            /\ response'.outcome = "Success" =>
                   /\ response'.skipped = imp.skipped
                   /\ response'.skipped >= hist.raised
                   /\ response'.added = imp.added
                   /\ response'.duplicates = imp.duplicates
      ]_vars

\* An import in which a row raised went on to the rows after it and
\* reported its counts.
C9_Witness ==
    /\ response.op = "import"
    /\ response.outcome = "Success"
    /\ ~response.clean
    /\ response.added > 0
    /\ response.skipped > 0

\* C10: the probe of a staff member (storage up) answers exists = true
\* exactly when the identifier is in the registry; wrong_category = true
\* with both labels when the student's category (unset included) is not the
\* caller's; otherwise already_evaluated = whether the pair has an
\* evaluation.  It changes no table.
C10_ProbeAnswers ==
    [][(/\ response'.op = "get_student"
        /\ response'.caller # NoSession
        /\ response'.json # [error |-> "OperationalError", exists |-> FALSE])
       => LET j == response'.json
              s == response'.caller
              found == {st \in BagToSet(students) :
                           st.student_id = response'.student_id}
          IN  /\ j.exists <=> found # {}
              /\ \A st \in found :
                   IF st.category # s.category
                   THEN /\ "wrong_category" \in DOMAIN j
                        /\ j.wrong_category
                        /\ j.staff_category = Label(s.category)
                        /\ j.student_category = Label(st.category)
                   ELSE /\ "already_evaluated" \in DOMAIN j
                        /\ ~j.wrong_category
                        /\ j.already_evaluated
                               <=> RowsOfPair(st.student_id, s.category) # {}
              /\ <<students, staff, evaluations>>' =
                     <<students, staff, evaluations>>
      ]_vars

\* C11: no step deletes or changes a row of the evaluation table: after
\* every step (submission, import, deletion of a student or of a staff
\* member, staff creation, probe, reports, export) the rows that were stored
\* are still stored, unchanged and in their places.
C11_LedgerAppendOnly ==
    [][/\ Len(evaluations') >= Len(evaluations)
       /\ SubSeq(evaluations', 1, Len(evaluations)) = evaluations
      ]_vars

\* An evaluation is stored whose student and whose staff member were both
\* deleted afterwards.
C11_Witness ==
    /\ response.op \in {"delete_student", "delete_staff"}
    /\ response.outcome = "Deleted"
    /\ \E i \in DOMAIN evaluations :
           /\ \A st \in BagToSet(students) :
                  st.student_id # evaluations[i].student_id
           /\ \A st \in staff : st.id # evaluations[i].staff_id

\* The places of the stored evaluations that a filter selects.
Selected(rows, c) ==
    {i \in DOMAIN rows : c = "all" \/ rows[i].category = c}

\* The k-th smallest element of a set of places.
Kth(places, k) ==
    CHOOSE i \in places : Cardinality({j \in places : j <= i}) = k

\* C12: the sheet of an export with filter c is the header row followed by
\* one row for each stored evaluation of category c (of any category when c
\* is "all") and no other row, in stored order.
C12_ExportRows ==
    [][(response'.op = "export" /\ response'.outcome = "Sheet") =>
        LET sheet == response'.sheet
            places == Selected(evaluations', response'.category)
        IN  /\ Len(sheet) = 1 + Cardinality(places)
            /\ sheet[1] = Headers
            /\ \A k \in 1..Cardinality(places) :
                   LET e == evaluations'[Kth(places, k)]
                   IN  /\ sheet[k + 1][1] = e.student_id
                       /\ sheet[k + 1][2] = e.staff_id
                       /\ sheet[k + 1][3] = Label(e.category)
                       /\ sheet[k + 1][4] = e.score
                       /\ sheet[k + 1][5] = e.max_score
      ]_vars

\* An export with filter robo_race of a ledger whose second of three rows is
\* a robo_sumo evaluation: the sheet has the header and two rows.
C12_Witness ==
    /\ response.op = "export"
    /\ response.outcome = "Sheet"
    /\ response.category = "robo_race"
    /\ Len(response.sheet) = 3
    /\ Len(evaluations) = 3
    /\ evaluations[2].category = "robo_sumo"
    /\ evaluations[1].student_id # evaluations[3].student_id

\* The category cell of a sheet row: None when the row has no fifth cell.
CellOf(row) == IF Len(row) > 4 THEN row[5] ELSE None

\* The students that a step of the import adds to its session.
AddedBy(before, after) ==
    {st \in BagToSet(after) : CopiesIn(st, after) > CopiesIn(st, before)}

\* C13: the student that the import adds for a valid row has the category
\* that the claim gives for the row's category cell: with t the cell's text
\* trimmed, lower-cased and with spaces replaced by underscores, t itself
\* when t is one of the three names; otherwise robo_race when t contains
\* "race", else robo_sumo when it contains "sumo", else working_model when
\* it contains "working" or "model"; and no category for any other text and
\* for an absent or empty cell.  So "Robo Race", "robo-race", "SUMO" and
\* "Working Model" give their category.
C13_CategoryOfText ==
    [][(imp.pc = "rows" /\ imp'.pc = "rows" /\ imp'.added = imp.added + 1) =>
        LET cell == CellOf(imp.sheet[imp.idx - 1])
            t == Replace(Lower(Strip(cell)), " ", "_")
            has(word) == Contains(t, Text(word))
        IN  /\ AddedBy(pending, pending') # {}
            /\ \A st \in AddedBy(pending, pending') :
                 /\ ~Truthy(cell) => st.category = NoCategory
                 /\ Truthy(cell) =>
                      /\ \A c \in Categories :
                             t = Text(c) => st.category = c
                      /\ (\A c \in Categories : t # Text(c)) =>
                           /\ has("race") => st.category = "robo_race"
                           /\ (~has("race") /\ has("sumo")) =>
                                  st.category = "robo_sumo"
                           /\ (/\ ~has("race") /\ ~has("sumo")
                               /\ has("working") \/ has("model")) =>
                                  st.category = "working_model"
                           /\ (/\ ~has("race") /\ ~has("sumo")
                               /\ ~has("working") /\ ~has("model")) =>
                                  st.category = NoCategory
                 /\ cell \in {RoboRaceCell, HyphenCell} =>
                        st.category = "robo_race"
                 /\ cell = SumoCell => st.category = "robo_sumo"
                 /\ cell = WorkingModelCell => st.category = "working_model"
      ]_vars

\* The import of a row whose category cell reads "robo-race" has stored a
\* robo_race student.
C13_Witness ==
    /\ response.op = "import"
    /\ response.outcome = "Success"
    /\ response.added = 1
    /\ CellOf(response.file[1]) = HyphenCell
    /\ \E st \in BagToSet(students) :
           /\ st.student_id = Strip(response.file[1][1])
           /\ st.category = "robo_race"

\* The rows of the registry whose identifier the import counted as added.
LeftBy(table, counted) ==
    BagCardinality([st \in {x \in BagToSet(table) : x.student_id \in counted}
                       |-> CopiesIn(st, table)])

\* C14: when an import completes and reports its counts, the added count is
\* the number of student rows that the import left in the registry, whatever
\* the file and whichever rows failed.
C14_AddedIsPersisted ==
    [][(/\ imp.pc = "rows"
        /\ response'.op = "import"
        /\ response'.outcome = "Success")
       => response'.added = LeftBy(students', hist.counted)
      ]_vars

\* C15: in a completed import every data row is counted once: added +
\* skipped + duplicates is the number of rows of the sheet from row 2 on,
\* also when the processing of a row or a periodic commit failed.
C15_EveryRowCountedOnce ==
    (response.op = "import" /\ response.outcome = "Success") =>
        response.added + response.skipped + response.duplicates
            = Len(response.file)

====
